---- MODULE Spec2Model ----
(***************************************************************************)
(* Model of the metrics -> OpenTelemetry recorder.                         *)
(*                                                                         *)
(*   src/src/builder.rs   OtelBuilder: idle timeout, kind mask, build      *)
(*   src/src/recorder.rs  MeterRecorder over metrics_util::Registry,       *)
(*                        metrics_util::Recency and one observer callback  *)
(*                        per register_counter call                        *)
(*                                                                         *)
(* Application threads call the Recorder operations; a single export       *)
(* thread runs export passes.  An export pass invokes every observer       *)
(* callback that was installed with `.init()`, in any order; a callback    *)
(* hands its observation to the backend with observer.observe, and the     *)
(* pass is over when all callbacks have returned.                          *)
(*                                                                         *)
(* Library semantics relied upon (the calls are in recorder.rs, the        *)
(* bodies in the metrics_util crate):                                      *)
(*   Registry::op      entry(kind,key).or_insert_with(init), then          *)
(*                     Tracked::with_increment(f): run f on the handle,    *)
(*                     then add one to the generation; all of it under the *)
(*                     write lock of the entry's map shard, so one atomic  *)
(*                     step for every other user of the map                *)
(*   Registry::delete  remove the entry iff its generation equals the      *)
(*                     generation passed in                                *)
(*   Handle::*         a tagged variant; an operation of one variant       *)
(*                     applied to a handle of another variant panics       *)
(*   Recency           one (generation, instant) record per Key, kept when *)
(*                     the entry is evicted                                *)
(***************************************************************************)
EXTENDS Integers, Sequences, FiniteSets, TLC

\* ------------------------------------------------------------------ bounds
MaxOps == 3          \* Recorder calls started in one behaviour
MaxTime == 2         \* clock readings 0..MaxTime

\* ------------------------------------------------------------------ inputs
Threads == {1, 2}

Kinds == {"Counter", "Gauge", "Histogram"}

\* metrics::Key: a name and an ordered list of labels
Key1 == [name |-> "requests_total",
         labels |-> << <<"route", "/a">>, <<"method", "GET">> >>]
Key2 == [name |-> "requests_total", labels |-> << >>]
Keys == {Key1, Key2}
Names == {k.name : k \in Keys}

EntryKeys == Kinds \X Keys

Deltas == {1, 2}
Samples == {1, 2}
GaugeValues == {[variant |-> "Increment", v |-> 2],
                [variant |-> "Decrement", v |-> 1],
                [variant |-> "Absolute", v |-> 5]}
NoneStr == "none"          \* Option::None of a description or unit
Absent == "absent"         \* no entry in a details map
Timeouts == {1}            \* Some(Duration)
\* (unit, description) arguments of the register_* calls
DetailInputs == {<<NoneStr, NoneStr>>, <<NoneStr, "d1">>, <<"u2", "d2">>}
NoTimeout == 0             \* idle_timeout: None

MaskALL == Kinds
MaskNONE == {}
MaskGAUGE == {"Gauge"}
Masks == {MaskALL, MaskGAUGE}

VARIABLES
    built,          \* OtelBuilder::build has run
    idle_timeout,   \* OtelBuilder.idle_timeout / Recency.idle_timeout
    mask,           \* OtelBuilder.mask / Recency.mask
    registry,       \* Inner.registry: (kind, key) -> entry
    recency,        \* Inner.recency: key -> (last generation, last update)
    descriptions,   \* Inner.descriptions: name -> description
    units,          \* Inner.units: name -> unit
    observers,      \* Inner.meter: installed observer callbacks per counter key
    thr,            \* per application thread: position inside a register_* call
    now,            \* quanta::Clock time at the last should_store call
    phase,          \* export thread: "idle", "running", "delivered"
    todo,           \* callbacks of the running pass not yet invoked
    cb,             \* the observer callback in progress
    batch,          \* observations handed to the backend in the running / last pass
    panics,         \* Recorder operations that ended in a panic
    ops,            \* Recorder calls started
    \* history variables, read by the properties only
    applied,        \* per counter key: deltas passed to increment_counter since the
                    \* key was last absent from the registry, counted by delta
    liveHandles,    \* per counter key: handles created minus handles evicted
    batchT,         \* per observation of batch: sum of the deltas applied by then
    curObs,         \* per key: value the running / last pass reported, -1 if none
    prevObs,        \* per key: value the pass before reported, -1 if none
    life,           \* per counter key: "live", "evicted", "recreated"
    histIn,         \* per key: record_histogram calls made
    histAtBegin,    \* per key: histIn when the running / last pass began
    histOut,        \* per key: histogram observations handed to a pass
    atBegin,        \* registry entries present when the running / last pass began
    armed,          \* counter keys with an observer when that pass began
    lastRep,        \* per key: value of the latest observation of any pass, -1 if none
    touched,        \* counter keys incremented since a callback last looked them up
    cbFresh         \* the key of the callback in progress was in touched at its lookup

progVars == <<built, idle_timeout, mask, registry, recency, descriptions, units,
              observers, thr, now, phase, todo, cb, batch, panics, ops>>
histVars == <<applied, liveHandles, batchT, curObs, prevObs, life, histIn,
              histAtBegin, histOut, atBegin, armed, lastRep, touched, cbFresh>>
vars == <<progVars, histVars>>

\* --------------------------------------------------- metrics_util::Handle
\* Handle::counter(): the init function every registry.op call passes
HandleCounter == [tag |-> "Counter", val |-> 0, bucket |-> << >>]

Ok(h) == [ok |-> TRUE, h |-> h]
Panic(h) == [ok |-> FALSE, h |-> h]

\* a counter whose increment stores the delta instead of adding it
HandleIncrementCounterStore(h, v) ==
    IF h.tag = "Counter" THEN Ok([h EXCEPT !.val = v]) ELSE Panic(h)

\* Handle::increment_counter: fetch_add on a counter, panic on another variant
HandleIncrementCounter(h, v) ==
    IF h.tag = "Counter" THEN Ok([h EXCEPT !.val = @ + v]) ELSE Panic(h)

\* GaugeValue::update_value
GaugeUpdateValue(g, cur) ==
    CASE g.variant = "Increment" -> cur + g.v
      [] g.variant = "Decrement" -> cur - g.v
      [] g.variant = "Absolute" -> g.v

\* Handle::update_gauge: panic unless the handle is a gauge
HandleUpdateGauge(h, g) ==
    IF h.tag = "Gauge" THEN Ok([h EXCEPT !.val = GaugeUpdateValue(g, @)])
    ELSE Panic(h)

\* Handle::record_histogram: push to the bucket, panic unless a histogram
HandleRecordHistogram(h, x) ==
    IF h.tag = "Histogram" THEN Ok([h EXCEPT !.bucket = Append(@, x)])
    ELSE Panic(h)

\* the closure `|_| {}` of the register_* operations
HandleNoop(h) == Ok(h)

\* Handle::read_counter
HandleReadCounter(h) ==
    IF h.tag = "Counter" THEN [ok |-> TRUE, v |-> h.val] ELSE [ok |-> FALSE, v |-> 0]

\* ------------------------------------------------ metrics_util::Registry
NoEntry == [present |-> FALSE, gen |-> 0, handle |-> HandleCounter]

\* a registry whose op only looks the entry up and never inserts it
OrInsertLookupOnly(e) == e

\* a registry whose op gives every caller a handle of its own
OrInsertAlwaysNew(e) == [present |-> TRUE, gen |-> 0, handle |-> HandleCounter]

\* entry(kind, key).or_insert_with(|| Tracked::new(init())), init being
\* Handle::counter in every call of recorder.rs
OrInsert(e) == IF e.present THEN e
               ELSE [present |-> TRUE, gen |-> 0, handle |-> HandleCounter]

\* the mutate closure each Recorder operation hands to registry.op
ApplyOp(op, arg, h) ==
    CASE op = "register" -> HandleNoop(h)
      [] op = "increment_counter" -> HandleIncrementCounter(h, arg)
      [] op = "update_gauge" -> HandleUpdateGauge(h, arg)
      [] op = "record_histogram" -> HandleRecordHistogram(h, arg)

\* Tracked::with_increment: run the closure, then bump the generation; a
\* panicking closure unwinds before the bump
WithIncrement(e, r) ==
    IF r.ok THEN [e EXCEPT !.handle = r.h, !.gen = @ + 1] ELSE e

\* a registry keyed by the key alone: an op acts on the entry of every kind
RegistryOpByKey(reg, op, kind, key, arg) ==
    LET e == OrInsert(reg[<<kind, key>>])
        r == ApplyOp(op, arg, e.handle)
    IN [reg |-> [ek \in EntryKeys |->
                    IF ek[2] = key THEN WithIncrement(e, r) ELSE reg[ek]],
        ok |-> r.ok]

\* Registry::op(kind, key, mutate, init): the new registry and whether the
\* mutate closure returned (ok) or panicked
RegistryOp(reg, op, kind, key, arg) ==
    LET e == OrInsert(reg[<<kind, key>>])
        r == ApplyOp(op, arg, e.handle)
    IN [reg |-> [reg EXCEPT ![<<kind, key>>] = WithIncrement(e, r)], ok |-> r.ok]

\* a delete that removes the entry whatever its generation
RegistryDeleteAnyGeneration(reg, ek, gen) ==
    IF reg[ek].present
    THEN [deleted |-> TRUE,
          reg |-> [reg EXCEPT ![ek] = [present |-> FALSE, gen |-> 0,
                                       handle |-> [tag |-> "Counter", val |-> 0,
                                                   bucket |-> << >>]]]]
    ELSE [deleted |-> FALSE, reg |-> reg]

\* Registry::delete(kind, key, generation): remove_if the generation matches
RegistryDelete(reg, ek, gen) ==
    IF reg[ek].present /\ reg[ek].gen = gen
    THEN [deleted |-> TRUE, reg |-> [reg EXCEPT ![ek] = NoEntry]]
    ELSE [deleted |-> FALSE, reg |-> reg]

\* ------------------------------------------------- metrics_util::Recency
NoRecency == [seen |-> FALSE, last_gen |-> 0, last_update |-> 0]

\* a recency tracker that stores a key only when its generation has changed
\* since it last looked, whatever the configuration
ShouldStoreOnChange(kind, key, gen, t, rec, reg) ==
    [store |-> ~rec[key].seen \/ rec[key].last_gen # gen,
     rec |-> [rec EXCEPT ![key] = [seen |-> TRUE, last_gen |-> gen, last_update |-> t]],
     reg |-> reg]

\* a recency tracker that applies its timeout to every kind, configured or not
ShouldStoreUnmasked(kind, key, gen, t, rec, reg) ==
    IF ~rec[key].seen \/ rec[key].last_gen # gen
    THEN [store |-> TRUE,
          rec |-> [rec EXCEPT ![key] = [seen |-> TRUE, last_gen |-> gen, last_update |-> t]],
          reg |-> reg]
    ELSE IF t - rec[key].last_update > idle_timeout
    THEN [store |-> FALSE, rec |-> rec,
          reg |-> [reg EXCEPT ![<<kind, key>>] =
                      [present |-> FALSE, gen |-> 0,
                       handle |-> [tag |-> "Counter", val |-> 0, bucket |-> << >>]]]]
    ELSE [store |-> TRUE, rec |-> rec, reg |-> reg]

\* Recency::should_store(kind, key, gen, registry) at clock reading t:
\* the verdict and the new recency map and registry
ShouldStore(kind, key, gen, t, rec, reg) ==
    IF idle_timeout = NoTimeout \/ kind \notin mask
    THEN [store |-> TRUE, rec |-> rec, reg |-> reg]
    ELSE IF ~rec[key].seen
    THEN [store |-> TRUE,
          rec |-> [rec EXCEPT ![key] = [seen |-> TRUE, last_gen |-> gen, last_update |-> t]],
          reg |-> reg]
    ELSE IF rec[key].last_gen = gen
    THEN IF t - rec[key].last_update > idle_timeout
         THEN LET d == RegistryDelete(reg, <<kind, key>>, gen)
              IN [store |-> ~d.deleted, rec |-> rec, reg |-> d.reg]
         ELSE [store |-> TRUE, rec |-> rec, reg |-> reg]
    ELSE [store |-> TRUE,
          rec |-> [rec EXCEPT ![key] = [seen |-> TRUE, last_gen |-> gen, last_update |-> t]],
          reg |-> reg]

\* ------------------------------------------------------------- recorder.rs
\* a conversion that hands the backend no labels at all
labels_dropped(labels) == << >>

\* labels_to_keyvalue: one KeyValue per label, in order, its value a
\* Value::String of the label's value
labels_to_keyvalue(labels) ==
    [i \in 1..Len(labels) |->
        [key |-> labels[i][1], value |-> [variant |-> "String", s |-> labels[i][2]]]]

\* a details map whose insert overwrites
InsertAlways(map, name, value) ==
    IF value = NoneStr THEN map ELSE [map EXCEPT ![name] = value]

\* insert-if-missing of add_details_if_missing, for one of the two maps
InsertIfMissing(map, name, value) ==
    IF value = NoneStr THEN map
    ELSE IF map[name] # Absent THEN map
    ELSE [map EXCEPT ![name] = value]

\* application threads are interchangeable: a new call is given to the
\* lowest-numbered thread that is not inside a call
FreeThread(t) == thr[t].pc = "idle" /\ \A u \in Threads : u < t => thr[u].pc # "idle"

IdleThread == [pc |-> "idle", kind |-> "Counter", key |-> Key1, unit |-> NoneStr]

NoCallback == [pc |-> "none", key |-> Key1, gen |-> 0]

\* sum of the deltas counted in a bag c: Deltas -> Nat
RECURSIVE SumOver(_, _)
SumOver(c, ds) ==
    IF ds = {} THEN 0
    ELSE LET d == CHOOSE x \in ds : TRUE
         IN d * c[d] + SumOver(c, ds \ {d})

Total(c) == SumOver(c, Deltas)

NoDeltas == [d \in Deltas |-> 0]

\* the key of a registry.op call is not in the registry yet
Unseen(reg, kind, key) == ~reg[<<kind, key>>].present

\* a registry.op call puts a new handle under its key
Creates(reg, kind, key) == OrInsert(reg[<<kind, key>>]) # reg[<<kind, key>>]

\* history of the counter handle of `key` across a registry.op call
LifeAfterOp(kind, key) ==
    IF kind = "Counter" /\ Unseen(registry, kind, key) /\ life[key] = "evicted"
    THEN [life EXCEPT ![key] = "recreated"] ELSE life

LiveAfterOp(kind, key) ==
    IF kind = "Counter" /\ Creates(registry, kind, key)
    THEN [liveHandles EXCEPT ![key] = @ + 1] ELSE liveHandles

\* OtelBuilder::new: idle_timeout None, mask ALL; nothing recorded yet
Init ==
    /\ built = FALSE
    /\ idle_timeout = NoTimeout
    /\ mask = MaskALL
    /\ registry = [ek \in EntryKeys |-> NoEntry]
    /\ recency = [k \in Keys |-> NoRecency]
    /\ descriptions = [n \in Names |-> Absent]
    /\ units = [n \in Names |-> Absent]
    /\ observers = [k \in Keys |-> 0]
    /\ thr = [t \in Threads |-> IdleThread]
    /\ now = 0
    /\ phase = "idle"
    /\ todo = [k \in Keys |-> 0]
    /\ cb = NoCallback
    /\ batch = << >>
    /\ panics = {}
    /\ ops = 0
    /\ applied = [k \in Keys |-> NoDeltas]
    /\ liveHandles = [k \in Keys |-> 0]
    /\ batchT = << >>
    /\ curObs = [k \in Keys |-> -1]
    /\ prevObs = [k \in Keys |-> -1]
    /\ life = [k \in Keys |-> "live"]
    /\ histIn = [k \in Keys |-> 0]
    /\ histAtBegin = [k \in Keys |-> 0]
    /\ histOut = [k \in Keys |-> 0]
    /\ atBegin = {}
    /\ armed = {}
    /\ lastRep = [k \in Keys |-> -1]
    /\ touched = {}
    /\ cbFresh = FALSE

\* ------------------------------------------------------------- builder.rs
\* OtelBuilder::timeout(mask, timeout)
BuilderTimeout(m, d) ==
    /\ ~built
    /\ idle_timeout' = d
    /\ mask' = IF d = NoTimeout THEN MaskNONE ELSE m
    /\ UNCHANGED <<built, registry, recency, descriptions, units, observers, thr,
                   now, phase, todo, cb, batch, panics, ops>>
    /\ UNCHANGED histVars

\* OtelBuilder::build: Recency::new(clock, mask, idle_timeout), empty registry
\* and details maps
Build ==
    /\ ~built
    /\ built' = TRUE
    /\ UNCHANGED <<idle_timeout, mask, registry, recency, descriptions, units,
                   observers, thr, now, phase, todo, cb, batch, panics, ops>>
    /\ UNCHANGED histVars

\* ------------------------------------------------- Recorder for MeterRecorder
\* register_counter / register_gauge / register_histogram, first step:
\* add_details_if_missing takes the descriptions lock and inserts if missing
Register(t, kind, key, unit, description) ==
    /\ built
    /\ ops < MaxOps
    /\ FreeThread(t)
    /\ ops' = ops + 1
    /\ descriptions' = InsertIfMissing(descriptions, key.name, description)
    /\ thr' = [thr EXCEPT ![t] = [pc |-> "unit", kind |-> kind, key |-> key, unit |-> unit]]
    /\ UNCHANGED <<built, idle_timeout, mask, registry, recency, units, observers,
                   now, phase, todo, cb, batch, panics>>
    /\ UNCHANGED histVars

\* add_details_if_missing, second step: the units lock
AddUnit(t) ==
    /\ thr[t].pc = "unit"
    /\ units' = InsertIfMissing(units, thr[t].key.name, thr[t].unit)
    /\ thr' = [thr EXCEPT ![t].pc = "op", ![t].unit = NoneStr]
    /\ UNCHANGED <<built, idle_timeout, mask, registry, recency, descriptions,
                   observers, now, phase, todo, cb, batch, panics, ops>>
    /\ UNCHANGED histVars

\* where a register_* call goes after registry.op returned: only
\* register_counter goes on to `.init()` its observer; the observer builders
\* of register_gauge and register_histogram are dropped without `.init()`
AfterOp(kind) == IF kind = "Counter" THEN "init" ELSE "idle"

\* register_*: registry.op(kind, key, |_| {}, Handle::counter)
RegisterOp(t) ==
    /\ thr[t].pc = "op"
    /\ LET r == RegistryOp(registry, "register", thr[t].kind, thr[t].key, 0)
       IN registry' = r.reg
    /\ thr' = [thr EXCEPT ![t] = IF AfterOp(thr[t].kind) = "init"
                                 THEN [@ EXCEPT !.pc = "init"] ELSE IdleThread]
    /\ life' = LifeAfterOp(thr[t].kind, thr[t].key)
    /\ liveHandles' = LiveAfterOp(thr[t].kind, thr[t].key)
    /\ applied' = IF thr[t].kind = "Counter" /\ Unseen(registry, "Counter", thr[t].key)
                  THEN [applied EXCEPT ![thr[t].key] = NoDeltas] ELSE applied
    /\ UNCHANGED <<built, idle_timeout, mask, recency, descriptions, units,
                   observers, now, phase, todo, cb, batch, panics, ops>>
    /\ UNCHANGED <<batchT, curObs, prevObs, histIn, histAtBegin, histOut, atBegin, armed, lastRep, touched, cbFresh>>

\* register_counter: meter.u64_sum_observer(name, callback).init()
InitObserver(t) ==
    /\ thr[t].pc = "init"
    /\ observers' = [observers EXCEPT ![thr[t].key] = @ + 1]
    /\ thr' = [thr EXCEPT ![t] = IdleThread]
    /\ UNCHANGED <<built, idle_timeout, mask, registry, recency, descriptions, units,
                   now, phase, todo, cb, batch, panics, ops>>
    /\ UNCHANGED histVars

\* increment_counter / update_gauge / record_histogram, called by a thread
\* that is not inside another call: one registry.op
Mutate(op, kind, key, arg) ==
    /\ built
    /\ ops < MaxOps
    /\ \E t \in Threads : thr[t].pc = "idle"
    /\ ops' = ops + 1
    /\ LET r == RegistryOp(registry, op, kind, key, arg)
       IN /\ registry' = r.reg
          /\ panics' = IF r.ok THEN panics ELSE panics \cup {op}
    /\ life' = LifeAfterOp(kind, key)
    /\ liveHandles' = LiveAfterOp(kind, key)
    /\ UNCHANGED <<built, idle_timeout, mask, recency, descriptions, units,
                   observers, thr, now, phase, todo, cb, batch>>
    /\ UNCHANGED <<batchT, histAtBegin, histOut, atBegin, armed, lastRep, cbFresh>>

\* fn increment_counter(&self, key, value)
increment_counter(key, value) ==
    /\ Mutate("increment_counter", "Counter", key, value)
    /\ applied' = [applied EXCEPT ![key] =
                      LET c == IF Unseen(registry, "Counter", key) THEN NoDeltas ELSE @
                      IN [c EXCEPT ![value] = @ + 1]]
    /\ curObs' = [curObs EXCEPT ![key] = -1]
    /\ prevObs' = [prevObs EXCEPT ![key] = -1]
    /\ touched' = touched \cup {key}
    /\ UNCHANGED histIn

\* fn update_gauge(&self, key, value)
update_gauge(key, value) ==
    /\ Mutate("update_gauge", "Gauge", key, value)
    /\ UNCHANGED <<applied, curObs, prevObs, histIn, touched>>

\* fn record_histogram(&self, key, value)
record_histogram(key, value) ==
    /\ Mutate("record_histogram", "Histogram", key, value)
    /\ histIn' = [histIn EXCEPT ![key] = @ + 1]
    /\ UNCHANGED <<applied, curObs, prevObs, touched>>

\* ------------------------------------------------------------ export pass
\* the backend starts a pass over the observer callbacks installed so far
PassBegin ==
    /\ built
    /\ phase \in {"idle", "delivered"}
    /\ phase' = "running"
    /\ todo' = observers
    /\ batch' = << >>
    /\ batchT' = << >>
    /\ prevObs' = curObs
    /\ curObs' = [k \in Keys |-> -1]
    /\ histAtBegin' = histIn
    /\ atBegin' = {ek \in EntryKeys : registry[ek].present}
    /\ armed' = {k \in Keys : observers[k] > 0}
    /\ UNCHANGED <<built, idle_timeout, mask, registry, recency, descriptions, units,
                   observers, thr, now, cb, panics, ops>>
    /\ UNCHANGED <<applied, liveHandles, life, histIn, histOut, lastRep, touched, cbFresh>>

\* observer callback of register_counter: registry.get_handles() and the
\* lookup of (Counter, key_1) in the snapshot
CbSnapshot(key) ==
    /\ phase = "running"
    /\ cb.pc = "none"
    /\ todo[key] > 0
    /\ todo' = [todo EXCEPT ![key] = @ - 1]
    /\ cb' = IF registry[<<"Counter", key>>].present
             THEN [pc |-> "store", key |-> key, gen |-> registry[<<"Counter", key>>].gen]
             ELSE NoCallback
    /\ cbFresh' = (key \in touched)
    /\ touched' = touched \ {key}
    /\ UNCHANGED <<built, idle_timeout, mask, registry, recency, descriptions, units,
                   observers, thr, now, phase, batch, panics, ops>>
    /\ UNCHANGED <<applied, liveHandles, batchT, curObs, prevObs, life, histIn,
                   histAtBegin, histOut, atBegin, armed, lastRep>>

\* observer callback: inner.recency.should_store(Counter, key_1, gen, registry).
\* Nothing else depends on the clock, so the wall-clock time that went by
\* since the previous call shows here, as the time t >= now of this call.
CbShouldStore(t) ==
    /\ cb.pc = "store"
    /\ t >= now
    /\ LET r == ShouldStore("Counter", cb.key, cb.gen, t, recency, registry)
           gone == registry[<<"Counter", cb.key>>].present
                   /\ ~r.reg[<<"Counter", cb.key>>].present
       IN /\ recency' = r.rec
          /\ registry' = r.reg
          /\ cb' = IF r.store THEN [cb EXCEPT !.pc = "read"] ELSE NoCallback
          /\ life' = IF gone THEN [life EXCEPT ![cb.key] = "evicted"] ELSE life
          /\ liveHandles' = IF gone THEN [liveHandles EXCEPT ![cb.key] = @ - 1]
                            ELSE liveHandles
    /\ now' = t
    /\ UNCHANGED <<built, idle_timeout, mask, descriptions, units, observers, thr,
                   phase, todo, batch, panics, ops>>
    /\ UNCHANGED <<applied, batchT, curObs, prevObs, histIn, histAtBegin, histOut, atBegin, armed, lastRep, touched, cbFresh>>

\* an observer callback that reads the counter and resets it to 0, the way
\* the histogram callback reads its bucket
CbObserveAndClear ==
    /\ cb.pc = "read"
    /\ LET h == registry[<<"Counter", cb.key>>].handle
           v == HandleReadCounter(h).v
       IN /\ batch' = Append(batch, [kind |-> "Counter", key |-> cb.key,
                                     labels |-> labels_to_keyvalue(cb.key.labels),
                                     value |-> v])
          /\ curObs' = [curObs EXCEPT ![cb.key] = v]
          /\ lastRep' = [lastRep EXCEPT ![cb.key] = v]
          /\ registry' = [registry EXCEPT ![<<"Counter", cb.key>>].handle.val = 0]
    /\ batchT' = Append(batchT, Total(applied[cb.key]))
    /\ life' = [life EXCEPT ![cb.key] = "live"]
    /\ cb' = NoCallback
    /\ UNCHANGED <<built, idle_timeout, mask, recency, descriptions, units,
                   observers, thr, now, phase, todo, panics, ops>>
    /\ UNCHANGED <<applied, liveHandles, prevObs, histIn, histAtBegin, histOut, atBegin, armed,
                   touched, cbFresh>>

\* observer callback: observer.observe(metric.1.read_counter(), labels);
\* the handle of the snapshot is the live handle of the entry (an Arc clone)
CbObserve ==
    /\ cb.pc = "read"
    /\ LET h == registry[<<"Counter", cb.key>>].handle
           v == HandleReadCounter(h).v
       IN /\ batch' = Append(batch, [kind |-> "Counter", key |-> cb.key,
                                     labels |-> labels_to_keyvalue(cb.key.labels),
                                     value |-> v])
          /\ curObs' = [curObs EXCEPT ![cb.key] = v]
          /\ lastRep' = [lastRep EXCEPT ![cb.key] = v]
    /\ batchT' = Append(batchT, Total(applied[cb.key]))
    /\ life' = [life EXCEPT ![cb.key] = "live"]
    /\ cb' = NoCallback
    /\ UNCHANGED <<built, idle_timeout, mask, registry, recency, descriptions, units,
                   observers, thr, now, phase, todo, panics, ops>>
    /\ UNCHANGED <<applied, liveHandles, prevObs, histIn, histAtBegin, histOut, atBegin, armed,
                   touched, cbFresh>>

\* every callback of the pass has returned: the backend holds the
\* observations of the whole pass
PassEnd ==
    /\ phase = "running"
    /\ cb.pc = "none"
    /\ \A k \in Keys : todo[k] = 0
    /\ phase' = "delivered"
    /\ UNCHANGED <<built, idle_timeout, mask, registry, recency, descriptions, units,
                   observers, thr, now, todo, cb, batch, panics, ops>>
    /\ UNCHANGED histVars

\* Every Recorder operation of the three kinds (no unit, no description)
\* against the export passes.
Next ==
    \/ \E m \in Masks, d \in Timeouts \cup {NoTimeout} : BuilderTimeout(m, d)
    \/ Build
    \/ \E t \in Threads, kind \in Kinds, key \in Keys :
            Register(t, kind, key, NoneStr, NoneStr)
    \/ \E t \in Threads : AddUnit(t)
    \/ \E t \in Threads : RegisterOp(t)
    \/ \E t \in Threads : InitObserver(t)
    \/ \E key \in Keys, v \in Deltas : increment_counter(key, v)
    \/ \E key \in Keys, g \in GaugeValues : update_gauge(key, g)
    \/ \E key \in Keys, x \in Samples : record_histogram(key, x)
    \/ PassBegin
    \/ \E key \in Keys : CbSnapshot(key)
    \/ \E t \in 0..MaxTime : CbShouldStore(t)
    \/ CbObserve
    \/ PassEnd

Spec == Init /\ [][Next]_vars

\* The counter path alone: register_counter and increment_counter calls
\* (no unit, no description) against the export passes.
NextCounter ==
    \/ \E m \in Masks, d \in Timeouts \cup {NoTimeout} : BuilderTimeout(m, d)
    \/ Build
    \/ \E t \in Threads, key \in Keys : Register(t, "Counter", key, NoneStr, NoneStr)
    \/ \E t \in Threads : AddUnit(t)
    \/ \E t \in Threads : RegisterOp(t)
    \/ \E t \in Threads : InitObserver(t)
    \/ \E key \in Keys, v \in Deltas : increment_counter(key, v)
    \/ PassBegin
    \/ \E key \in Keys : CbSnapshot(key)
    \/ \E t \in 0..MaxTime : CbShouldStore(t)
    \/ CbObserve
    \/ PassEnd

SpecCounter == Init /\ [][NextCounter]_vars

\* The register_* calls with their units and descriptions, on a recorder
\* built with the default configuration.
NextDetails ==
    \/ Build
    \/ \E t \in Threads, kind \in Kinds, key \in Keys, ud \in DetailInputs :
            Register(t, kind, key, ud[1], ud[2])
    \/ \E t \in Threads : AddUnit(t)
    \/ \E t \in Threads : RegisterOp(t)
    \/ \E t \in Threads : InitObserver(t)

SpecDetails == Init /\ [][NextDetails]_vars

\* One key under the three kinds: every Recorder operation on Key1 against
\* the export passes.
NextKinds ==
    \/ \E m \in Masks, d \in Timeouts \cup {NoTimeout} : BuilderTimeout(m, d)
    \/ Build
    \/ \E t \in Threads, kind \in Kinds : Register(t, kind, Key1, NoneStr, NoneStr)
    \/ \E t \in Threads : AddUnit(t)
    \/ \E t \in Threads : RegisterOp(t)
    \/ \E t \in Threads : InitObserver(t)
    \/ \E v \in Deltas : increment_counter(Key1, v)
    \/ \E g \in GaugeValues : update_gauge(Key1, g)
    \/ \E x \in Samples : record_histogram(Key1, x)
    \/ PassBegin
    \/ \E key \in Keys : CbSnapshot(key)
    \/ \E t \in 0..MaxTime : CbShouldStore(t)
    \/ CbObserve
    \/ PassEnd

SpecKinds == Init /\ [][NextKinds]_vars

\* ------------------------------------------------------------ properties
ObsOf(k) == {i \in 1..Len(batch) : batch[i].kind = "Counter" /\ batch[i].key = k}

AllIdle == \A t \in Threads : thr[t].pc = "idle"

C2_ExactlyOnce ==
    phase = "delivered" =>
        \A k \in Keys : histAtBegin[k] <= histOut[k] /\ histOut[k] <= histIn[k]

\* C3: a counter that was evicted as stale and then recreated by a later
\* update stays in the registry until an export pass has reported it.
C3_RecreatedIsReported ==
    [][\A k \in Keys : life[k] = "recreated" => registry'[<<"Counter", k>>].present]_vars

\* C4 as stated: with no idle timeout, a pass that follows a pass which
\* reported a counter key, with no increment_counter on the key in between,
\* emits no observation for the key.
C4_NothingNew ==
    (phase = "delivered" /\ idle_timeout = NoTimeout) =>
        \A k \in Keys : prevObs[k] >= 0 => ObsOf(k) = {}

\* C4 as amended: such a pass reports the key again, with the same value.
C4_SameValueAgain ==
    (phase = "delivered" /\ idle_timeout = NoTimeout) =>
        \A k \in Keys : prevObs[k] >= 0 =>
            /\ ObsOf(k) # {}
            /\ \A i \in ObsOf(k) : batch[i].value = prevObs[k]

\* a second pass in a row is delivered for a key with a positive count
C4_Witness ==
    /\ phase = "delivered"
    /\ idle_timeout = NoTimeout
    /\ \E k \in Keys : prevObs[k] > 0 /\ ObsOf(k) # {}

C6_AllEntriesReported ==
    (phase = "delivered" /\ idle_timeout = NoTimeout) =>
        \A ek \in atBegin :
            \E i \in 1..Len(batch) : batch[i].kind = ek[1] /\ batch[i].key = ek[2]

C9_GaugeFold ==
    [][\A k \in Keys, g \in GaugeValues :
          update_gauge(k, g) =>
              LET e == registry[<<"Gauge", k>>]
                  cur == IF e.present THEN e.handle.val ELSE 0
              IN /\ registry'[<<"Gauge", k>>].present
                 /\ registry'[<<"Gauge", k>>].handle.val = GaugeUpdateValue(g, cur)
                 /\ panics' = panics]_vars

\* C10: record_histogram on a key that is registered as a counter, and not
\* as a histogram, is silently ignored: no panic, the registry is unchanged.
C10_MismatchIgnored ==
    [][\A k \in Keys, x \in Samples :
          (/\ record_histogram(k, x)
           /\ registry[<<"Counter", k>>].present
           /\ ~registry[<<"Histogram", k>>].present) =>
              registry' = registry /\ panics' = panics]_vars

\* C11: no Recorder operation ever ends in a panic.
C11_Total == panics = {}

\* C12: with no idle timeout, or with counters outside the tracked mask, the
\* staleness check of every callback returns true and no step removes an
\* entry from the registry, whatever the clock says.
C12_NeverStale ==
    [][(idle_timeout = NoTimeout \/ "Counter" \notin mask) =>
          /\ \A ek \in EntryKeys : registry[ek].present => registry'[ek].present
          /\ (cb.pc = "store" /\ cb' # cb) => cb'.pc = "read"]_vars

\* a timeout is configured for gauges only, the clock is far beyond it, and a
\* counter that nobody touched is reported by a second pass in a row
C12_Witness ==
    /\ idle_timeout # NoTimeout
    /\ "Counter" \notin mask
    /\ now - idle_timeout > 0
    /\ phase = "delivered"
    /\ \E k \in Keys : prevObs[k] >= 0 /\ ObsOf(k) # {} /\ ~recency[k].seen

\* C13 as stated: an observation of a counter key is never less than the
\* latest observation an earlier pass (or an earlier callback) made of the key.
C13_MonotonicRead ==
    [][Len(batch') = Len(batch) + 1 =>
          LET o == batch'[Len(batch')]
          IN o.value >= lastRep[o.key]]_vars

\* C13 as amended: the same, within one lifetime of the key's entry; the
\* first observation of an entry recreated after an eviction is exempt.
C13_MonotonicInLifetime ==
    [][Len(batch') = Len(batch) + 1 =>
          LET o == batch'[Len(batch')]
          IN life[o.key] # "recreated" => o.value >= lastRep[o.key]]_vars

\* an earlier pass reported 1 for the key, an increment_counter call added 2,
\* and the callback of a later pass is about to observe the key
C13_Witness ==
    /\ cb.pc = "read"
    /\ batch = << >>
    /\ life[cb.key] = "live"
    /\ lastRep[cb.key] = 1
    /\ registry[<<"Counter", cb.key>>].handle.val = 3

\* C14: the backend never holds the observations of only some of the metrics
\* of a pass: whenever it holds an observation of the pass, every callback of
\* the pass has made its observations.
C14_WholeBatch ==
    batch # << >> => (cb.pc = "none" /\ \A k \in Keys : todo[k] = 0)

\* C15: a counter incremented since a callback last looked at it is judged
\* fresh by the next callback that looks at it: should_store returns true,
\* the entry stays, and with the tracker active for counters the tracker
\* records the generation the callback saw and the time of the call.
C15_FreshIsStored ==
    [][(cb.pc = "store" /\ cbFresh /\ cb' # cb) =>
          /\ cb'.pc = "read"
          /\ registry'[<<"Counter", cb.key>>].present
          /\ (idle_timeout # NoTimeout /\ "Counter" \in mask) =>
                 recency'[cb.key] =
                     [seen |-> TRUE, last_gen |-> cb.gen, last_update |-> now']]_vars

\* C16: a register call on a key that is registered already leaves every
\* handle of the registry as it was, and a pass (with no eviction possible)
\* reports each registered key exactly once.
C16_RegisterIdempotent ==
    [][/\ (\E t \in Threads : thr[t].pc = "op" /\ thr'[t].pc # "op") =>
             \A ek \in EntryKeys :
                 registry[ek].present =>
                     /\ registry'[ek].present
                     /\ registry'[ek].handle = registry[ek].handle
       /\ (phase' = "delivered" /\ (idle_timeout = NoTimeout \/ "Counter" \notin mask)) =>
             \A k \in armed' : Cardinality(ObsOf(k)') = 1]_vars

\* the step is a Recorder operation or a callback step on a metric of `kind`
OpOfKind(kind) ==
    \/ \E t \in Threads : thr[t].kind = kind /\ RegisterOp(t)
    \/ /\ kind = "Counter"
       /\ \/ \E k \in Keys, v \in Deltas : increment_counter(k, v)
          \/ \E t \in 0..MaxTime : CbShouldStore(t)
          \/ CbObserve
    \/ kind = "Gauge" /\ \E k \in Keys, g \in GaugeValues : update_gauge(k, g)
    \/ kind = "Histogram" /\ \E k \in Keys, x \in Samples : record_histogram(k, x)

C19_HandleMatchesKind ==
    \A ek \in EntryKeys : registry[ek].present => registry[ek].handle.tag = ek[1]

\* C20: when an increment_counter call ran between a callback's lookup of
\* the key and its staleness decision, the decision keeps the entry as it
\* is and returns true; and a key incremented since a callback last looked
\* it up is in the registry with the sum of its increments.
C20_NoEvictionOfUpdated ==
    [][/\ (/\ cb.pc = "store"
           /\ cb' # cb
           /\ registry[<<"Counter", cb.key>>].gen # cb.gen) =>
              /\ registry'[<<"Counter", cb.key>>] = registry[<<"Counter", cb.key>>]
              /\ cb'.pc = "read"
       /\ \A k \in touched :
              /\ registry[<<"Counter", k>>].present
              /\ registry[<<"Counter", k>>].handle.val = Total(applied[k])]_vars

\* the decision was taken past the timeout, with the generation of the
\* lookup equal to the recorded one, after an increment had moved the entry on
C20_Witness ==
    /\ cb.pc = "read"
    /\ idle_timeout # NoTimeout
    /\ "Counter" \in mask
    /\ cb.key \in touched
    /\ recency[cb.key].seen
    /\ recency[cb.key].last_gen = cb.gen
    /\ now - recency[cb.key].last_update > idle_timeout
    /\ registry[<<"Counter", cb.key>>].present
    /\ registry[<<"Counter", cb.key>>].gen = cb.gen + 1

====
